---- MODULE Spec2Model ----
(***************************************************************************)
(* Model of PrepareBenchmarkFactory (s64da_benchmark_toolkit/prepare.py):  *)
(* the preparation pipeline run(), the disk-space check, prepare_db,       *)
(* add_indexes, vacuum_analyze and the thread-pool task runner             *)
(* _run_tasks_parallel.  One coordinating thread (pc) drives run(); the    *)
(* worker threads of the ThreadPoolExecutor act through the Worker*        *)
(* actions and the external processes through TaskExit / VacuumExit.       *)
(***************************************************************************)
EXTENDS Integers, Sequences, FiniteSets, TLC

\* ------------------------------------------------------------------------
\* Bounds of the model
MaxJobs == 2
MaxTables == 2
MaxTasksPerTable == 3
MaxTasks == 3
MaxScale == 2
MaxMult == 2
MaxFreeGiB == 3

\* ------------------------------------------------------------------------
\* Program constants
SQL_FILES_Reordered == <<"foreign-keys.sql", "primary-keys.sql", "indexes.sql">>
SQL_FILES == <<"primary-keys.sql", "foreign-keys.sql", "indexes.sql">>
GiB == 1024 * 1024 * 1024

\* None of dict.get, kept apart from every multiplier (an integer >= 0)
None == -1

\* Schema directory names (basename of schema_dir) as character sequences.
SchemaNames ==
  { <<"s", "d", "b", "_", "x">>,
    <<"p", "s", "q", "l", "_", "x", "_", "y">>,
    <<"s", "6", "4", "d", "a">>,
    <<"s", "d", "b", "x", "_", "y">>,
    <<"m", "y", "_", "x">> }

K_sdb == <<"s", "d", "b">>
K_s64da == <<"s", "6", "4", "d", "a">>
K_psql == <<"p", "s", "q", "l">>
Kinds == {K_s64da, K_psql}

VARIABLES
  \* configuration of the run (self.args, class attributes)
  schema, scale_factor, SIZING_FACTORS, check_diskspace_of_directory,
  max_jobs, TABLES,
  \* environment
  free, db, schema_files,
  \* coordinating thread
  pc, error, preflight, started, conn, touched,
  ti, ingest_tasks, fi, applied, executed, vacuum,
  \* _run_tasks_parallel
  stage, tasks, si, fstate, fexc, queue, ac_init, ac_pending, waiter_fin,
  completed_future, ci, raising, outcome,
  \* observation
  inv, rcs, reports, detected, pending_at_detect, running_at_detect,
  task_failed, boot_from,
  \* history of the run
  answers, batches, vacuums, entries

cfgvars == <<schema, scale_factor, SIZING_FACTORS, check_diskspace_of_directory,
             max_jobs, TABLES>>
envvars == <<free, db, schema_files>>
runvars == <<pc, error, preflight, started, conn, touched,
             ti, ingest_tasks, fi, applied, executed, vacuum>>
poolvars == <<stage, tasks, si, fstate, fexc, queue, ac_init, ac_pending,
              waiter_fin, completed_future, ci, raising, outcome>>
obsvars == <<inv, rcs, reports, detected, pending_at_detect, running_at_detect,
             task_failed, boot_from>>
histvars == <<answers, batches, vacuums, entries>>
vars == <<cfgvars, envvars, runvars, poolvars, obsvars, histvars>>

\* ------------------------------------------------------------------------
\* Helpers

Range(s) == { s[i] : i \in 1..Len(s) }

\* Byte counts are Python ints (arbitrary precision); they are kept as two
\* digits in base 2^30: value = gib * 2^30 + rem, 0 <= rem < 2^30.
Bytes(g, r) == [gib |-> g, rem |-> r]

\* the free byte count before shutil.disk_usage was called
Unread == Bytes(-1, 0)

\* a < b on byte counts
BytesLess(a, b) == a.gib < b.gib \/ (a.gib = b.gib /\ a.rem < b.rem)

\* str.split('_')[0]: the characters before the first underscore
RECURSIVE SplitFirst(_)
SplitFirst(s) ==
  IF s = <<>> \/ Head(s) = "_" THEN <<>>
  ELSE <<Head(s)>> \o SplitFirst(Tail(s))

\* db_type of _check_diskspace
DbType(name) ==
  LET db_type == SplitFirst(name)
  IN IF db_type = K_sdb THEN K_s64da ELSE db_type

\* dict.get(key): None when the key is missing
DictGet(d, k) == IF k \in DOMAIN d THEN d[k] ELSE None

\* scale_factor * 1024 * 1024 * 1024 * size_factor
SpaceNeeded(sf, size_factor) == Bytes(sf * size_factor, 0)

\* the comparison with <= in place of <
EnoughSpace_OrEqual(space_needed, free_bytes) == ~BytesLess(free_bytes, space_needed)

\* assert space_needed < free
EnoughSpace(space_needed, free_bytes) == BytesLess(space_needed, free_bytes)

\* the failed check only reported, run() going on
AfterCheck_Continue(enough) == "prepare_db"

\* where run() continues after the assert of _check_diskspace
AfterCheck(enough) == IF enough THEN "prepare_db" ELSE "failed"

\* shutil.disk_usage(...).free : any byte count the volume may report
FreeChoices == { Bytes(g, r) : g \in 0..MaxFreeGiB, r \in {0, 1, GiB - 1} }

\* Size models: every registered kind maps the scale factors of S to m.
SizeModel(K, S, m) == [k \in K |-> [s \in S |-> m]]
SizeModels == { SizeModel(K, S, m) :
                  K \in SUBSET Kinds, S \in SUBSET (1..MaxScale), m \in 0..MaxMult }

TablePrefix(k) == [i \in 1..k |-> i]

Stages == {"Bootstrap", "Ingest", "Index", "Analyze"}
NoEntries == [s \in Stages |-> 0]

DbStates == {"absent", "empty", "partial", "schema", "populated"}
NoFiles == [f \in Range(SQL_FILES) |-> "unknown"]

\* SQL statements of prepare_db, as PostgreSQL executes them.
\* Each yields <<ok, new database state>>.
\* DROP DATABASE dbname, without the existence guard
SqlDropDatabase_Unguarded(d) ==
  IF d = "absent" THEN <<FALSE, d>> ELSE <<TRUE, "absent">>

\* DROP DATABASE IF EXISTS dbname
SqlDropDatabaseIfExists(d) == <<TRUE, "absent">>
\* CREATE DATABASE dbname: an error when the database exists
SqlCreateDatabase(d) == IF d = "absent" THEN <<TRUE, "empty">> ELSE <<FALSE, d>>
\* schema.sql (CREATE TABLE ...): an error unless the database is empty
SqlExecuteSchema(d) == IF d = "empty" THEN <<TRUE, "schema">> ELSE <<FALSE, d>>

\* ------------------------------------------------------------------------
\* Initial states

PoolIdle ==
  /\ stage = "none"
  /\ tasks = <<>>
  /\ si = 1
  /\ fstate = <<>>
  /\ fexc = <<>>
  /\ queue = <<>>
  /\ ac_init = {}
  /\ ac_pending = {}
  /\ waiter_fin = <<>>
  /\ completed_future = 0
  /\ ci = 1
  /\ raising = FALSE
  /\ outcome = "none"
  /\ inv = <<>>
  /\ rcs = <<>>
  /\ reports = 0
  /\ detected = FALSE
  /\ pending_at_detect = {}
  /\ running_at_detect = {}

RunFresh ==
  /\ pc = "run"
  /\ error = "none"
  /\ preflight = "none"
  /\ started = {}
  /\ conn = {}
  /\ touched = FALSE
  /\ ti = 1
  /\ ingest_tasks = <<>>
  /\ fi = 1
  /\ applied = <<>>
  /\ executed = <<>>
  /\ vacuum = "none"
  /\ free = Unread
  /\ schema_files = NoFiles
  /\ task_failed = {}
  /\ boot_from = "none"
  /\ answers = <<>>
  /\ batches = <<>>
  /\ vacuums = 0
  /\ entries = NoEntries

\* the same values as the next state of an action
ResetPool ==
  /\ stage' = "none"
  /\ tasks' = <<>>
  /\ si' = 1
  /\ fstate' = <<>>
  /\ fexc' = <<>>
  /\ queue' = <<>>
  /\ ac_init' = {}
  /\ ac_pending' = {}
  /\ waiter_fin' = <<>>
  /\ completed_future' = 0
  /\ ci' = 1
  /\ raising' = FALSE
  /\ outcome' = "none"
  /\ inv' = <<>>
  /\ rcs' = <<>>
  /\ reports' = 0
  /\ detected' = FALSE
  /\ pending_at_detect' = {}
  /\ running_at_detect' = {}

ResetRun ==
  /\ pc' = "run"
  /\ error' = "none"
  /\ preflight' = "none"
  /\ started' = {}
  /\ conn' = {}
  /\ touched' = FALSE
  /\ ti' = 1
  /\ ingest_tasks' = <<>>
  /\ fi' = 1
  /\ applied' = <<>>
  /\ executed' = <<>>
  /\ vacuum' = "none"
  /\ free' = Unread
  /\ schema_files' = NoFiles
  /\ task_failed' = {}
  /\ boot_from' = "none"
  /\ answers' = <<>>
  /\ batches' = <<>>
  /\ vacuums' = 0
  /\ entries' = NoEntries

Init ==
  /\ schema = <<"s", "d", "b", "_", "x">>
  /\ scale_factor = 1
  /\ SIZING_FACTORS = SizeModel({K_s64da}, {1}, 2)
  /\ check_diskspace_of_directory = "/data"
  /\ max_jobs \in 1..MaxJobs
  /\ TABLES \in { TablePrefix(k) : k \in 0..MaxTables }
  /\ db = "absent"
  /\ RunFresh
  /\ PoolIdle

\* A benchmark of one table: its ingest batch is what the plugin answers
\* for that table, its ANALYZE batch is a single task.
InitFair ==
  /\ schema = <<"s", "d", "b", "_", "x">>
  /\ scale_factor = 1
  /\ SIZING_FACTORS = SizeModel({K_s64da}, {1}, 2)
  /\ check_diskspace_of_directory = "/data"
  /\ max_jobs \in 1..MaxJobs
  /\ TABLES = TablePrefix(1)
  /\ db = "absent"
  /\ RunFresh
  /\ PoolIdle

\* Inputs of the disk-space check drawn from the bounded sets.
InitPreflight ==
  /\ schema \in SchemaNames
  /\ scale_factor \in 1..MaxScale
  /\ SIZING_FACTORS \in SizeModels
  /\ check_diskspace_of_directory \in {"", "/data"}
  /\ max_jobs = 1
  /\ TABLES = <<>>
  /\ db = "absent"
  /\ RunFresh
  /\ PoolIdle

\* ------------------------------------------------------------------------
\* run(): disk-space check (lines 61-63, 37-58)

\* run() reaches the entry of a stage ('Preparing DB', 'Ingesting data', ...)
Enter(stg) == entries' = [entries EXCEPT ![stg] = @ + 1]

Fail(e) ==
  /\ pc' = "failed"
  /\ error' = e

CheckDiskspace ==
  /\ pc = "run"
  /\ IF check_diskspace_of_directory = ""
     THEN /\ preflight' = "disabled"
          /\ pc' = "prepare_db"
          /\ UNCHANGED <<error, free>>
     ELSE LET db_type == DbType(schema) IN
          IF db_type \notin DOMAIN SIZING_FACTORS
          THEN /\ preflight' = "keyerror"
               /\ Fail("KeyError")
               /\ UNCHANGED free
          ELSE LET size_factor == DictGet(SIZING_FACTORS[db_type], scale_factor) IN
               IF size_factor = None \/ size_factor = 0
               THEN /\ preflight' = "skipped"
                    /\ pc' = "prepare_db"
                    /\ UNCHANGED <<error, free>>
               ELSE \E f \in FreeChoices :
                      /\ free' = f
                      /\ LET enough == EnoughSpace(SpaceNeeded(scale_factor, size_factor), f)
                         IN /\ preflight' = IF enough THEN "passed" ELSE "failed"
                            /\ pc' = AfterCheck(enough)
                            /\ error' = IF pc' = "failed" THEN "AssertionError" ELSE error
  /\ UNCHANGED <<cfgvars, db, schema_files, started, conn, touched,
                 ti, ingest_tasks, fi, applied, executed, vacuum,
                 poolvars, obsvars>>
  /\ UNCHANGED histvars

\* ------------------------------------------------------------------------
\* DBConn, the connection context manager of the toolkit: entering it
\* acquires a connection, leaving it releases the connection.
DBConnEnter(c, name) == c \cup {name}
DBConnExit(c, name) == c \ {name}

EndWith_Nested(c, name) == c

\* the with block of a DBConn is left, by its last statement or by an
\* exception raised inside it
EndWith(c, name) == DBConnExit(c, name)

\* ------------------------------------------------------------------------
\* prepare_db (lines 82-96)

\* with DBConn(.../postgres) as conn
PrepareDbConnectAdmin ==
  /\ pc = "prepare_db"
  /\ started' = started \cup {"Bootstrap"}
  /\ free' = Unread   \* the locals of _check_diskspace are gone
  /\ boot_from' = db
  /\ Enter("Bootstrap")
  /\ \E ok \in BOOLEAN :
       IF ok THEN /\ conn' = DBConnEnter(conn, "admin")
                  /\ pc' = "drop"
                  /\ UNCHANGED error
             ELSE /\ Fail("OperationalError")
                  /\ UNCHANGED conn
  /\ UNCHANGED <<cfgvars, db, schema_files, preflight, touched,
                 ti, ingest_tasks, fi, applied, executed, vacuum,
                 poolvars, inv, rcs, reports, detected, pending_at_detect,
                 running_at_detect, task_failed>>
  /\ UNCHANGED <<answers, batches, vacuums>>

\* conn.cursor.execute('DROP DATABASE IF EXISTS ...')
PrepareDbDrop ==
  /\ pc = "drop"
  /\ \E ok \in BOOLEAN :
       LET r == SqlDropDatabaseIfExists(db) IN
       IF ok /\ r[1]
       THEN /\ db' = r[2]
            /\ touched' = TRUE
            /\ pc' = "create"
            /\ UNCHANGED <<error, conn>>
       ELSE /\ Fail(IF r[1] THEN "OperationalError" ELSE "SqlError")
            /\ conn' = EndWith(conn, "admin")
            /\ UNCHANGED <<db, touched>>
  /\ UNCHANGED <<cfgvars, free, schema_files, preflight, started,
                 ti, ingest_tasks, fi, applied, executed, vacuum,
                 poolvars, obsvars>>
  /\ UNCHANGED histvars

\* conn.cursor.execute('CREATE DATABASE ...'), end of the first with block
PrepareDbCreate ==
  /\ pc = "create"
  /\ conn' = EndWith(conn, "admin")
  /\ \E ok \in BOOLEAN :
       LET r == SqlCreateDatabase(db) IN
       IF ok /\ r[1]
       THEN /\ db' = r[2]
            /\ touched' = TRUE
            /\ pc' = "connect_target"
            /\ UNCHANGED error
       ELSE /\ Fail(IF r[1] THEN "OperationalError" ELSE "SqlError")
            /\ UNCHANGED <<db, touched>>
  /\ UNCHANGED <<cfgvars, free, schema_files, preflight, started,
                 ti, ingest_tasks, fi, applied, executed, vacuum,
                 poolvars, obsvars>>
  /\ UNCHANGED histvars

\* with DBConn(self.args.dsn) as conn
PrepareDbConnectTarget ==
  /\ pc = "connect_target"
  /\ \E ok \in BOOLEAN :
       IF ok /\ db # "absent"
       THEN /\ conn' = DBConnEnter(conn, "target")
            /\ pc' = "load_schema"
            /\ UNCHANGED error
       ELSE /\ Fail("OperationalError")
            /\ UNCHANGED conn
  /\ UNCHANGED <<cfgvars, envvars, preflight, started, touched,
                 ti, ingest_tasks, fi, applied, executed, vacuum,
                 poolvars, obsvars>>
  /\ UNCHANGED histvars

\* conn.cursor.execute(schema.read()), end of the second with block
PrepareDbLoadSchema ==
  /\ pc = "load_schema"
  /\ conn' = EndWith(conn, "target")
  /\ \E ok \in BOOLEAN :
       LET r == SqlExecuteSchema(db) IN
       IF ok /\ r[1]
       THEN /\ db' = r[2]
            /\ touched' = TRUE
            /\ pc' = "ingest"
            /\ Enter("Ingest")
            /\ UNCHANGED error
       ELSE /\ Fail(IF r[1] THEN "OperationalError" ELSE "SqlError")
            /\ UNCHANGED entries
            /\ IF r[1] THEN /\ db' \in {db, "partial"}
                            /\ touched' = (touched \/ db' # db)
                       ELSE UNCHANGED <<db, touched>>
  /\ UNCHANGED <<cfgvars, free, schema_files, preflight, started,
                 ti, ingest_tasks, fi, applied, executed, vacuum,
                 poolvars, obsvars>>
  /\ UNCHANGED <<answers, batches, vacuums>>

\* ------------------------------------------------------------------------
\* run(): collecting the ingestion tasks (lines 68-74)

\* a plugin's answer for one table: not a list, or a list of k tasks
NotAList == -1
PluginAnswers == {NotAList} \cup (0..MaxTasksPerTable)

TasksOf(table, k) == [j \in 1..k |-> <<table, j>>]

\* ingest_tasks.extend(tasks)
Extend_Prepend(l, ts) == ts \o l
Extend(l, ts) == l \o ts

\* The runner never looks into a task: it hands the shell command to Popen.
\* Inside the runner a batch is the sequence of its opaque commands.
ShellCommands(ts) == [i \in 1..Len(ts) |-> "cmd"]

\* with ThreadPoolExecutor(max_workers=...) as executor
StartBatch(stg, ts) ==
  /\ stage' = stg
  /\ tasks' = ShellCommands(ts)
  /\ si' = 1
  /\ fstate' = <<>>
  /\ fexc' = <<>>
  /\ queue' = <<>>
  /\ ac_init' = {}
  /\ ac_pending' = {}
  /\ waiter_fin' = <<>>
  /\ completed_future' = 0
  /\ ci' = 1
  /\ raising' = FALSE
  /\ outcome' = "none"
  /\ inv' = [i \in 1..Len(ts) |-> 0]
  /\ rcs' = [i \in 1..Len(ts) |-> None]
  /\ reports' = 0
  /\ detected' = FALSE
  /\ pending_at_detect' = {}
  /\ running_at_detect' = {}
  /\ batches' = Append(batches, stg)
  /\ pc' = "submit"

GetIngestTasks ==
  /\ pc = "ingest"
  /\ ti <= Len(TABLES)
  /\ started' = started \cup {"Ingest"}
  /\ \E answer \in PluginAnswers :
       IF answer = NotAList
       THEN /\ Fail("AssertionError")
            /\ answers' = Append(answers, answer)
            /\ UNCHANGED <<ti, ingest_tasks>>
       ELSE /\ Len(ingest_tasks) + answer <= MaxTasks
            /\ answers' = Append(answers, answer)
            /\ ingest_tasks' = Extend(ingest_tasks, TasksOf(TABLES[ti], answer))
            /\ ti' = ti + 1
            /\ UNCHANGED <<pc, error>>
  /\ boot_from' = "none"
  /\ UNCHANGED <<cfgvars, envvars, preflight, conn, touched,
                 fi, applied, executed, vacuum, poolvars,
                 inv, rcs, reports, detected, pending_at_detect,
                 running_at_detect, task_failed>>
  /\ UNCHANGED <<batches, vacuums, entries>>

\* self._run_tasks_parallel(ingest_tasks)
RunIngestTasks ==
  /\ pc = "ingest"
  /\ ti > Len(TABLES)
  /\ started' = started \cup {"Ingest"}
  /\ StartBatch("Ingest", ingest_tasks)
  /\ ingest_tasks' = <<>>
  /\ answers' = <<>>
  /\ boot_from' = "none"
  /\ UNCHANGED <<cfgvars, envvars, error, preflight, conn, touched,
                 ti, fi, applied, executed, vacuum, task_failed>>
  /\ UNCHANGED <<vacuums, entries>>

\* ------------------------------------------------------------------------
\* _run_tasks_parallel (lines 27-35) and _run_shell_task (lines 22-25)

Futures == 1..Len(fstate)
Running == { i \in Futures : fstate[i] = "RUNNING" }
Done == { i \in Futures : fstate[i] \in {"FINISHED", "CANCELLED_AND_NOTIFIED"} }

\* the executor exists from the with statement to the end of its shutdown
ExecutorAlive == pc \in {"submit", "as_completed", "check", "cancel", "shutdown"}

\* the waiter of as_completed is installed on the futures
WaiterInstalled == pc \in {"as_completed", "check", "cancel"}

\* one worker thread too many
WorkerFree_OneMore == Cardinality(Running) <= max_jobs

\* a worker thread is free to take the next work item
WorkerFree == Cardinality(Running) < max_jobs

\* the assertion inverted
ShellTaskRaises_Inverted(returncode) == returncode = 0

\* in place of a return code: Popen raised, no process was started
Thrown == -2

\* assert p.returncode == 0: the task raises on any other exit code
ShellTaskRaises(returncode) == returncode # 0

Cancel_AnyState(st) == IF st \in {"PENDING", "RUNNING"} THEN "CANCELLED" ELSE st

\* Future.cancel(): only a pending future is cancelled
Cancel(st) == IF st = "PENDING" THEN "CANCELLED" ELSE st

Notify_Lost(i) == waiter_fin

\* a future that completes is handed to the waiter of as_completed
Notify(i) == IF WaiterInstalled THEN Append(waiter_fin, i) ELSE waiter_fin

\* executor.submit(self._run_shell_task, task), one task of the list
Submit ==
  /\ pc = "submit"
  /\ si <= Len(tasks)
  /\ fstate' = Append(fstate, "PENDING")
  /\ fexc' = Append(fexc, FALSE)
  /\ queue' = Append(queue, si)
  /\ si' = si + 1
  /\ UNCHANGED <<cfgvars, envvars, runvars, stage, tasks, ac_init, ac_pending,
                 waiter_fin, completed_future, ci, raising, outcome, obsvars>>
  /\ UNCHANGED histvars

\* as_completed(futures): snapshot of the finished futures, waiter installed
AsCompletedStart ==
  /\ pc = "submit"
  /\ si > Len(tasks)
  /\ ac_init' = Done
  /\ ac_pending' = Futures \ Done
  /\ waiter_fin' = <<>>
  /\ pc' = "as_completed"
  /\ UNCHANGED <<cfgvars, envvars, error, preflight, started, conn,
                 touched, ti, ingest_tasks, fi, applied, executed, vacuum,
                 stage, tasks, si, fstate, fexc, queue, completed_future, ci,
                 raising, outcome, obsvars>>
  /\ UNCHANGED histvars

\* next(as_completed): yields a finished future, or ends the for loop
AsCompletedNext ==
  /\ pc = "as_completed"
  /\ IF ac_init # {}
     THEN \E i \in ac_init :
            /\ completed_future' = i
            /\ ac_init' = ac_init \ {i}
            /\ pc' = "check"
            /\ UNCHANGED <<ac_pending, waiter_fin, raising>>
     ELSE IF ac_pending = {}
     THEN /\ pc' = "shutdown"
          /\ raising' = FALSE
          /\ UNCHANGED <<completed_future, ac_init, ac_pending, waiter_fin>>
     ELSE /\ waiter_fin # <<>>
          /\ completed_future' = Head(waiter_fin)
          /\ waiter_fin' = Tail(waiter_fin)
          /\ ac_pending' = ac_pending \ {Head(waiter_fin)}
          /\ pc' = "check"
          /\ UNCHANGED <<ac_init, raising>>
  /\ UNCHANGED <<cfgvars, envvars, error, preflight, started, conn,
                 touched, ti, ingest_tasks, fi, applied, executed, vacuum,
                 stage, tasks, si, fstate, fexc, queue, ci, outcome, obsvars>>
  /\ UNCHANGED histvars

ExceptionRaises_Never(st) == FALSE

\* Future.exception() raises CancelledError if the future was cancelled
ExceptionRaises(st) == st \in {"CANCELLED", "CANCELLED_AND_NOTIFIED"}

\* exc = completed_future.exception(); if exc: print(...)
CheckException ==
  /\ pc = "check"
  /\ IF ExceptionRaises(fstate[completed_future])
     THEN \* exception() raises CancelledError out of the for loop
          /\ pc' = "shutdown"
          /\ raising' = TRUE
          /\ UNCHANGED <<ci, reports, detected, pending_at_detect,
                         running_at_detect>>
     ELSE IF fexc[completed_future]
     THEN /\ reports' = reports + 1
          /\ detected' = TRUE
          /\ pending_at_detect' =
               IF detected THEN pending_at_detect
               ELSE { i \in Futures : fstate[i] = "PENDING" }
          /\ running_at_detect' =
               IF detected THEN running_at_detect ELSE Running
          /\ ci' = 1
          /\ pc' = "cancel"
          /\ UNCHANGED raising
     ELSE /\ pc' = "as_completed"
          /\ UNCHANGED <<ci, raising, reports, detected, pending_at_detect,
                         running_at_detect>>
  /\ UNCHANGED <<cfgvars, envvars, error, preflight, started, conn,
                 touched, ti, ingest_tasks, fi, applied, executed, vacuum,
                 stage, tasks, si, fstate, fexc, queue, ac_init, ac_pending,
                 waiter_fin, completed_future, outcome, inv, rcs, task_failed,
                 boot_from>>
  /\ UNCHANGED histvars

\* for future in futures: future.cancel()
CancelNext ==
  /\ pc = "cancel"
  /\ IF ci <= Len(fstate)
     THEN /\ fstate' = [fstate EXCEPT ![ci] = Cancel(fstate[ci])]
          /\ ci' = ci + 1
          /\ UNCHANGED pc
     ELSE /\ pc' = "as_completed"
          /\ UNCHANGED <<fstate, ci>>
  /\ UNCHANGED <<cfgvars, envvars, error, preflight, started, conn,
                 touched, ti, ingest_tasks, fi, applied, executed, vacuum,
                 stage, tasks, si, fexc, queue, ac_init, ac_pending,
                 waiter_fin, completed_future, raising, outcome, obsvars>>
  /\ UNCHANGED histvars

ExecutorShutdown_NoWait ==
  /\ pc = "shutdown"
  /\ outcome' = IF raising THEN "raised" ELSE "returned"
  /\ pc' = "ret"
  /\ UNCHANGED <<cfgvars, envvars, error, preflight, started, conn,
                 touched, ti, ingest_tasks, fi, applied, executed, vacuum,
                 stage, tasks, si, fstate, fexc, queue, ac_init, ac_pending,
                 waiter_fin, completed_future, ci, raising, obsvars>>
  /\ UNCHANGED histvars

\* end of the with block: executor.shutdown(wait=True) joins the workers
ExecutorShutdown ==
  /\ pc = "shutdown"
  /\ queue = <<>>
  /\ Running = {}
  /\ outcome' = IF raising THEN "raised" ELSE "returned"
  /\ pc' = "ret"
  /\ UNCHANGED <<cfgvars, envvars, error, preflight, started, conn,
                 touched, ti, ingest_tasks, fi, applied, executed, vacuum,
                 stage, tasks, si, fstate, fexc, queue, ac_init, ac_pending,
                 waiter_fin, completed_future, ci, raising, obsvars>>
  /\ UNCHANGED histvars

\* a worker thread takes the next work item and starts its process (Popen)
WorkerRun ==
  /\ ExecutorAlive
  /\ queue # <<>>
  /\ WorkerFree
  /\ fstate[Head(queue)] = "PENDING"
  /\ fstate' = [fstate EXCEPT ![Head(queue)] = "RUNNING"]
  /\ queue' = Tail(queue)
  /\ inv' = [inv EXCEPT ![Head(queue)] = @ + 1]
  /\ db' = IF stage = "Ingest" THEN "populated" ELSE db
  /\ UNCHANGED <<cfgvars, free, schema_files, runvars, stage, tasks, si, fexc,
                 ac_init, ac_pending, waiter_fin, completed_future, ci,
                 raising, outcome, rcs, reports, detected, pending_at_detect,
                 running_at_detect, task_failed, boot_from>>
  /\ UNCHANGED histvars

\* a worker thread takes the next work item and Popen raises (no process)
WorkerPopenRaises ==
  /\ ExecutorAlive
  /\ queue # <<>>
  /\ WorkerFree
  /\ fstate[Head(queue)] = "PENDING"
  /\ fstate' = [fstate EXCEPT ![Head(queue)] = "FINISHED"]
  /\ fexc' = [fexc EXCEPT ![Head(queue)] = TRUE]
  /\ rcs' = [rcs EXCEPT ![Head(queue)] = Thrown]
  /\ queue' = Tail(queue)
  /\ waiter_fin' = Notify(Head(queue))
  /\ task_failed' = task_failed \cup {stage}
  /\ UNCHANGED <<cfgvars, envvars, runvars, stage, tasks, si,
                 ac_init, ac_pending, completed_future, ci,
                 raising, outcome, inv, reports, detected, pending_at_detect,
                 running_at_detect, boot_from>>
  /\ UNCHANGED histvars

\* a worker thread takes a cancelled work item: set_running_or_notify_cancel
WorkerNotifyCancel ==
  /\ ExecutorAlive
  /\ queue # <<>>
  /\ WorkerFree
  /\ fstate[Head(queue)] = "CANCELLED"
  /\ fstate' = [fstate EXCEPT ![Head(queue)] = "CANCELLED_AND_NOTIFIED"]
  /\ queue' = Tail(queue)
  /\ waiter_fin' = Notify(Head(queue))
  /\ UNCHANGED <<cfgvars, envvars, runvars, stage, tasks, si, fexc,
                 ac_init, ac_pending, completed_future, ci,
                 raising, outcome, obsvars>>
  /\ UNCHANGED histvars

\* p.wait() returns; assert p.returncode == 0; the future gets its result
TaskExit ==
  /\ ExecutorAlive
  /\ \E i \in Running, returncode \in {0, 1} :
       /\ fstate' = [fstate EXCEPT ![i] = "FINISHED"]
       /\ rcs' = [rcs EXCEPT ![i] = returncode]
       /\ fexc' = [fexc EXCEPT ![i] = ShellTaskRaises(returncode)]
       /\ waiter_fin' = Notify(i)
       /\ task_failed' = IF returncode # 0 THEN task_failed \cup {stage}
                          ELSE task_failed
  /\ UNCHANGED <<cfgvars, envvars, runvars, stage, tasks, si, queue,
                 ac_init, ac_pending, completed_future, ci,
                 raising, outcome, inv, reports, detected, pending_at_detect,
                 running_at_detect, boot_from>>
  /\ UNCHANGED histvars

\* _run_tasks_parallel returns to, or raises into, its caller
AfterBatch ==
  /\ pc = "ret"
  /\ IF outcome = "raised"
     THEN /\ Fail("CancelledError")
          /\ UNCHANGED entries
     ELSE /\ pc' = IF stage = "Ingest" THEN "add_indexes" ELSE "done"
          /\ IF stage = "Ingest" THEN Enter("Index") ELSE UNCHANGED entries
          /\ UNCHANGED error
  /\ ResetPool
  /\ UNCHANGED <<cfgvars, envvars, preflight, started, conn, touched,
                 ti, ingest_tasks, fi, applied, executed, vacuum,
                 task_failed, boot_from>>
  /\ UNCHANGED <<answers, batches, vacuums>>

\* ------------------------------------------------------------------------
\* add_indexes (lines 101-112)

\* what a schema file holds: no file, '', only whitespace, SQL statements
FileContents == {"absent", "empty", "blank", "sql"}

\* if sql: any string but '' is true, a string of whitespace too
Truthy(sql) == sql # "empty"

\* os.path.isfile(sql_file_path); with DBConn(self.args.dsn) as conn
AddIndexesCheckFile ==
  /\ pc = "add_indexes"
  /\ fi <= Len(SQL_FILES)
  /\ started' = started \cup {"Index"}
  /\ \E content \in FileContents :
       /\ schema_files' = [schema_files EXCEPT ![SQL_FILES[fi]] = content]
       /\ IF content = "absent"
          THEN /\ fi' = fi + 1
               /\ UNCHANGED <<pc, error, conn>>
          ELSE \E ok \in BOOLEAN :
                 IF ok THEN /\ conn' = DBConnEnter(conn, "target")
                            /\ pc' = "apply"
                            /\ UNCHANGED <<fi, error>>
                       ELSE /\ Fail("DBError")
                            /\ UNCHANGED <<fi, conn>>
  /\ UNCHANGED <<cfgvars, free, db, preflight, touched,
                 ti, ingest_tasks, applied, executed, vacuum,
                 poolvars, obsvars>>
  /\ UNCHANGED histvars

\* print('Applying ...'); sql = sql_file.read(); if sql: execute(sql)
AddIndexesApply ==
  /\ pc = "apply"
  /\ applied' = Append(applied, SQL_FILES[fi])
  /\ conn' = EndWith(conn, "target")
  /\ IF Truthy(schema_files[SQL_FILES[fi]])
     THEN \E ok \in BOOLEAN :
            IF ok THEN /\ executed' = Append(executed, SQL_FILES[fi])
                       /\ db' = "populated"
                       /\ touched' = TRUE
                       /\ fi' = fi + 1
                       /\ pc' = "add_indexes"
                       /\ UNCHANGED error
                  ELSE /\ Fail("DBError")
                       /\ UNCHANGED <<executed, db, touched, fi>>
     ELSE /\ fi' = fi + 1
          /\ pc' = "add_indexes"
          /\ UNCHANGED <<executed, db, touched, error>>
  /\ UNCHANGED <<cfgvars, free, schema_files, preflight, started,
                 ti, ingest_tasks, vacuum, poolvars, obsvars>>
  /\ UNCHANGED histvars

\* add_indexes returns
AddIndexesReturn ==
  /\ pc = "add_indexes"
  /\ fi > Len(SQL_FILES)
  /\ started' = started \cup {"Index"}
  /\ pc' = "vacuum"
  /\ Enter("Analyze")
  /\ UNCHANGED <<cfgvars, envvars, error, preflight, conn, touched,
                 ti, ingest_tasks, fi, applied, executed, vacuum,
                 poolvars, obsvars>>
  /\ UNCHANGED <<answers, batches, vacuums>>

\* ------------------------------------------------------------------------
\* vacuum_analyze (lines 114-118)

\* self._run_shell_task('psql ... -c "VACUUM"'): Popen
VacuumStart ==
  /\ pc = "vacuum"
  /\ started' = started \cup {"Analyze"}
  /\ vacuum' = "running"
  /\ vacuums' = vacuums + 1
  /\ pc' = "vacuum_wait"
  \* add_indexes has returned: its loop state is gone
  /\ fi' = 1
  /\ schema_files' = NoFiles
  /\ applied' = <<>>
  /\ executed' = <<>>
  /\ UNCHANGED <<cfgvars, free, db, error, preflight, conn, touched,
                 ti, ingest_tasks, poolvars, obsvars>>
  /\ UNCHANGED <<answers, batches, entries>>

AnalyzeTasks_SkipFirst == [i \in 1..(Len(TABLES) - 1) |-> <<TABLES[i + 1], 0>>]

\* analyze_tasks: one 'psql ... -c "ANALYZE table"' per table of TABLES
AnalyzeTasks == [i \in 1..Len(TABLES) |-> <<TABLES[i], 0>>]

\* p.wait(); assert p.returncode == 0; self._run_tasks_parallel(analyze_tasks)
VacuumExit ==
  /\ pc = "vacuum_wait"
  /\ \E returncode \in {0, 1} :
       IF returncode = 0
       THEN /\ vacuum' = "ok"
            /\ StartBatch("Analyze", AnalyzeTasks)
            /\ UNCHANGED error
       ELSE /\ vacuum' = "failed"
            /\ Fail("AssertionError")
            /\ UNCHANGED <<batches, poolvars, inv, rcs, reports, detected,
                           pending_at_detect, running_at_detect>>
  /\ UNCHANGED <<cfgvars, envvars, preflight, started, conn, touched,
                 ti, ingest_tasks, fi, applied, executed, task_failed,
                 boot_from>>
  /\ UNCHANGED <<answers, vacuums, entries>>

\* ------------------------------------------------------------------------
\* The operator runs the preparation again from the top (a new process).

Rerun ==
  /\ pc \in {"done", "failed"}
  /\ ResetRun
  /\ ResetPool
  /\ UNCHANGED <<cfgvars, db>>

Next ==
  \/ CheckDiskspace
  \/ PrepareDbConnectAdmin
  \/ PrepareDbDrop
  \/ PrepareDbCreate
  \/ PrepareDbConnectTarget
  \/ PrepareDbLoadSchema
  \/ GetIngestTasks
  \/ RunIngestTasks
  \/ Submit
  \/ AsCompletedStart
  \/ AsCompletedNext
  \/ CheckException
  \/ CancelNext
  \/ ExecutorShutdown
  \/ WorkerRun
  \/ WorkerPopenRaises
  \/ WorkerNotifyCancel
  \/ TaskExit
  \/ AfterBatch
  \/ AddIndexesCheckFile
  \/ AddIndexesApply
  \/ AddIndexesReturn
  \/ VacuumStart
  \/ VacuumExit
  \/ Rerun

Spec == Init /\ [][Next]_vars

\* The threads and processes of a run. The coordinating thread executes
\* run(); the worker threads of the executor take work items; every
\* external process, a task's or VACUUM's, is taken to exit.
Coordinator ==
  \/ CheckDiskspace
  \/ PrepareDbConnectAdmin
  \/ PrepareDbDrop
  \/ PrepareDbCreate
  \/ PrepareDbConnectTarget
  \/ PrepareDbLoadSchema
  \/ GetIngestTasks
  \/ RunIngestTasks
  \/ Submit
  \/ AsCompletedStart
  \/ AsCompletedNext
  \/ CheckException
  \/ CancelNext
  \/ ExecutorShutdown
  \/ AfterBatch
  \/ AddIndexesCheckFile
  \/ AddIndexesApply
  \/ AddIndexesReturn
  \/ VacuumStart

Workers ==
  \/ WorkerRun
  \/ WorkerPopenRaises
  \/ WorkerNotifyCancel

Fairness ==
  /\ WF_vars(Coordinator)
  /\ WF_vars(Workers)
  /\ WF_vars(TaskExit)
  /\ WF_vars(VacuumExit)

\* one run of the program, from its start to Analyzed or Failed
NextFair ==
  \/ Coordinator
  \/ Workers
  \/ TaskExit
  \/ VacuumExit

SpecFair == InitFair /\ [][NextFair]_vars /\ Fairness

NextPreflight == CheckDiskspace

SpecPreflight == InitPreflight /\ [][NextPreflight]_vars

\* ------------------------------------------------------------------------
\* Properties

\* some task exited non-zero or threw
AnyTaskFailed == \E i \in DOMAIN rcs : rcs[i] # None /\ rcs[i] # 0
AllTasksSucceeded == \A i \in DOMAIN rcs : rcs[i] = 0 \/ rcs[i] = None

\* C1: when _run_tasks_parallel has finished a batch in which some task exited
\* non-zero or threw, it has raised into its caller (it did not return
\* normally).
C1_FailedBatchSurfaces ==
  (pc = "ret" /\ AnyTaskFailed) => outcome = "raised"

\* C2: once an ingestion task has exited non-zero neither the Index nor the
\* Analyze stage is ever started, and run() ends normally only when no task
\* of any batch failed.
C2_NoStageAfterFailure ==
  /\ ("Ingest" \in task_failed) => (started \cap {"Index", "Analyze"} = {})
  /\ (pc = "done") => (task_failed = {})

\* C3: in every state the number of tasks whose process is running is at
\* most the worker bound max_jobs.
C3_AtMostWRunning == Cardinality(Running) <= max_jobs

\* C3 witness: during the cancel loop, with more tasks than workers, as many
\* processes run as there are workers.
C3_Witness ==
  /\ pc = "cancel"
  /\ max_jobs >= 2
  /\ Len(tasks) > max_jobs
  /\ Cardinality(Running) = max_jobs

\* C4: a task not yet started when the coordinator detects a failure is never
\* started afterwards, and a task running at that moment runs to completion.
C4_NotStartedNeverDispatched ==
  detected =>
    /\ \A i \in pending_at_detect : inv[i] = 0
    /\ (pc = "ret") => (\A i \in running_at_detect : fstate[i] = "FINISHED")

\* C5: when a batch in which every task exited with 0 has finished, the
\* runner returned normally and every task was run exactly once; no task is
\* ever run twice.
C5_AllSucceededRunOnce ==
  /\ \A i \in DOMAIN inv : inv[i] <= 1
  /\ (pc = "ret" /\ AllTasksSucceeded) =>
       /\ outcome = "returned"
       /\ Len(fstate) = Len(tasks)
       /\ \A i \in 1..Len(tasks) : inv[i] = 1 /\ rcs[i] = 0

\* C5 witness: a batch of several tasks, all run once, returned normally.
C5_Witness ==
  /\ pc = "ret"
  /\ outcome = "returned"
  /\ Len(tasks) >= 2
  /\ \A i \in 1..Len(tasks) : inv[i] = 1 /\ rcs[i] = 0

\* the multiplier the check looked up, when there is one
RegisteredMultiplier == SIZING_FACTORS[DbType(schema)][scale_factor]

\* C6: when the check is performed with multiplier m, it fails if and only if
\* scale_factor * 2^30 * m >= free (free = gib * 2^30 + rem, rem < 2^30).
C6_FailsIffNotEnough ==
  (preflight \in {"passed", "failed"}) =>
    LET n == scale_factor * RegisteredMultiplier IN
    /\ (preflight = "failed") <=> (n > free.gib \/ (n = free.gib /\ free.rem = 0))
    /\ (preflight = "failed") <=> (pc = "failed" /\ error = "AssertionError")
    /\ (preflight = "passed") <=> (pc = "prepare_db")

\* C6 witness: the space needed equals the free space and the check failed.
C6_Witness ==
  /\ preflight = "failed"
  /\ pc = "failed"
  /\ free = Bytes(scale_factor * RegisteredMultiplier, 0)

NoMultiplierRegistered ==
  \/ DbType(schema) \notin DOMAIN SIZING_FACTORS
  \/ scale_factor \notin DOMAIN SIZING_FACTORS[DbType(schema)]

\* C7: when no multiplier is registered for the (kind, scale factor) pair,
\* whether the scale factor or the kind is missing, the performed check is
\* skipped and run() goes on to prepare_db.
C7_UnregisteredIsSkipped ==
  (check_diskspace_of_directory # "" /\ pc # "run" /\ NoMultiplierRegistered) =>
    (preflight = "skipped" /\ pc = "prepare_db")

\* C8: when the check found too little space the run has failed, no stage was
\* started, no connection was opened and the database was not changed.
C8_FailFastBeforeAnyStage ==
  (preflight = "failed") =>
    /\ pc = "failed"
    /\ started = {}
    /\ ~touched
    /\ conn = {}
    /\ stage = "none"

\* C8 witness: the check failed while an earlier database exists.
C8_Witness ==
  /\ preflight = "failed"
  /\ pc = "failed"
  /\ db = "populated"

\* C9: from whatever state the database was in, prepare_db never fails on a
\* statement that conflicts with that state, and when it has returned the
\* database is schema-loaded and holds no data.
C9_BootstrapIdempotent ==
  /\ error # "SqlError"
  /\ (pc = "ingest") => (db = "schema")

\* C9 witness: prepare_db has returned in a later run, started on the
\* schema-loaded database the run before it left.
C9_Witness ==
  /\ pc = "ingest"
  /\ boot_from = "schema"
  /\ db = "schema"

FileRank(f) ==
  CASE f = "primary-keys.sql" -> 1
    [] f = "foreign-keys.sql" -> 2
    [] f = "indexes.sql" -> 3

PresentFile(f) == schema_files[f] \in {"empty", "blank", "sql"}
NonEmptyFile(f) == schema_files[f] \in {"blank", "sql"}

Ascending(seq) ==
  \A i, j \in 1..Len(seq) : i < j => FileRank(seq[i]) < FileRank(seq[j])

\* C10: add_indexes applies only present files, each at most once, primary
\* keys before foreign keys before indexes; when it has returned it has
\* applied exactly the present files and executed the non-empty ones.
C10_AppliesPresentFilesInOrder ==
  /\ Ascending(applied)
  /\ Ascending(executed)
  /\ \A f \in Range(applied) : PresentFile(f)
  /\ (pc = "vacuum") =>
       /\ applied = SelectSeq(<<"primary-keys.sql", "foreign-keys.sql",
                                "indexes.sql">>, PresentFile)
       /\ executed = SelectSeq(applied, NonEmptyFile)

\* C10 witness: foreign-keys.sql is missing and the two other files were
\* applied.
C10_Witness ==
  /\ pc = "vacuum"
  /\ schema_files["foreign-keys.sql"] = "absent"
  /\ applied = <<"primary-keys.sql", "indexes.sql">>
  /\ executed = applied


\* C11: no SQL is executed for a file that is empty or holds only whitespace:
\* every executed file holds SQL statements.
C11_BlankFileSkipped ==
  \A f \in Range(executed) : schema_files[f] = "sql"


\* the answers of the first n tables, concatenated in table order
RECURSIVE FlattenAnswers(_)
FlattenAnswers(n) ==
  IF n = 0 THEN <<>>
  ELSE FlattenAnswers(n - 1) \o [j \in 1..answers[n] |-> <<TABLES[n], j>>]

\* C12: a plugin answer that is not a list fails the run before any task is
\* dispatched; otherwise the per-table task lists are concatenated in table
\* order, and the whole list is handed to the runner once, as one batch.
C12_IngestCollectedThenHandedOnce ==
  /\ [](/\ NotAList \in Range(answers)
           => /\ pc = "failed" /\ error = "AssertionError"
              /\ batches = <<>> /\ stage = "none" /\ inv = <<>>
        /\ pc = "ingest"
           => /\ ingest_tasks = FlattenAnswers(Len(answers))
              /\ Len(answers) = ti - 1
              /\ batches = <<>>
        /\ Cardinality({ b \in 1..Len(batches) : batches[b] = "Ingest" }) <= 1)
  /\ [][(pc = "ingest" /\ pc' = "submit")
         => /\ Len(answers) = Len(TABLES)
            /\ Len(tasks') = Len(ingest_tasks)
            /\ stage' = "Ingest"
            /\ batches' = <<"Ingest">>]_vars

C12_Witness ==
  /\ pc = "submit" /\ stage = "Ingest" /\ batches = <<"Ingest">>
  /\ Len(TABLES) >= 2 /\ Len(tasks) >= 2


\* the batches of ANALYZE tasks handed to the runner in this run
AnalyzeBatches == { b \in 1..Len(batches) : batches[b] = "Analyze" }

\* C13: one VACUUM is started and has exited with code 0 before any ANALYZE
\* task exists; the ANALYZE batch holds one task per table and runs under
\* the same bound max_jobs; after a failed VACUUM no ANALYZE is ever issued.
C13_VacuumThenAnalyzePerTable ==
  /\ [](/\ vacuums <= 1
        /\ vacuum = "running" => (vacuums = 1 /\ stage = "none")
        /\ (stage = "Analyze" \/ AnalyzeBatches # {})
           => (vacuum = "ok" /\ vacuums = 1 /\ Cardinality(AnalyzeBatches) = 1)
        /\ stage = "Analyze"
           => /\ Len(tasks) = Len(TABLES)
              /\ Len(fstate) <= Len(TABLES)
              /\ Cardinality(Running) <= max_jobs
        /\ vacuum = "failed"
           => /\ pc = "failed" /\ error = "AssertionError"
              /\ stage = "none" /\ AnalyzeBatches = {})
  /\ [][(pc = "vacuum_wait" /\ pc' = "submit")
         => /\ vacuum' = "ok"
            /\ Len(tasks') = Len(TABLES)
            /\ \A t \in Range(TABLES) : <<t, 0>> \in Range(AnalyzeTasks)]_vars

C13_Witness ==
  /\ stage = "Analyze" /\ vacuum = "ok" /\ vacuums = 1
  /\ Len(TABLES) = 2 /\ Cardinality(Running) = 2


InRunner == pc \in {"submit", "as_completed", "check", "cancel", "shutdown"}

\* the task of future i never got a process
NeverStarted(i) ==
  fstate[i] \in {"CANCELLED", "CANCELLED_AND_NOTIFIED"} /\ inv[i] = 0

\* C15: when _run_tasks_parallel returns or raises, every task of the batch
\* has a future that is finished or was cancelled without having started,
\* and none is running or queued; so outside the runner (index SQL, VACUUM,
\* the failure path) no task of any batch is running.
C15_BatchResolvedBeforeAdvancing ==
  /\ pc = "ret"
     => /\ Running = {} /\ queue = <<>>
        /\ Len(fstate) = Len(tasks)
        /\ \A i \in Futures : fstate[i] = "FINISHED" \/ NeverStarted(i)
  /\ ~InRunner => Running = {}
  /\ pc \in {"add_indexes", "apply", "vacuum", "vacuum_wait", "done", "failed"}
     => (stage = "none" /\ fstate = <<>> /\ queue = <<>>)
  /\ (conn # {} \/ vacuum = "running") => (stage = "none" /\ fstate = <<>>)

C15_Witness ==
  /\ pc = "ret" /\ outcome = "raised"
  /\ \E i \in running_at_detect : fstate[i] = "FINISHED" /\ ~fexc[i]
  /\ \E i \in Futures : NeverStarted(i)


\* C16: nothing is retried: in one run the entry of each stage is executed
\* at most once and VACUUM is started at most once; in a batch each task is
\* started at most once, and a cancelled task is never started, neither
\* before nor after its cancellation.
C16_NothingRetried ==
  /\ [](/\ \A s \in Stages : entries[s] <= 1
        /\ vacuums <= 1
        /\ Len(batches) <= 2
        /\ \A i \in Futures :
             /\ inv[i] <= 1
             /\ fstate[i] \in {"CANCELLED", "CANCELLED_AND_NOTIFIED"}
                => inv[i] = 0)
  /\ [][\A i \in Futures :
          (fstate[i] \in {"CANCELLED", "CANCELLED_AND_NOTIFIED"}
             /\ i \in DOMAIN inv')
          => inv'[i] = inv[i]]_vars

C16_Witness ==
  /\ pc = "ret" /\ stage = "Analyze" /\ outcome = "raised"
  /\ \A s \in Stages : entries[s] = 1
  /\ \E i \in Futures : fstate[i] = "CANCELLED_AND_NOTIFIED"
  /\ \E i \in Futures : inv[i] = 1 /\ fexc[i]


\* C17: the coordinator holds at most one connection: the administrative
\* one exactly while DROP and CREATE are executed, the one to the target
\* database exactly while schema.sql or one index file is executed; none is
\* open between files or stages, after a failure, or while a batch runs.
C17_ConnectionsScoped ==
  /\ Cardinality(conn) <= 1
  /\ conn = IF pc \in {"drop", "create"} THEN {"admin"}
            ELSE IF pc \in {"load_schema", "apply"} THEN {"target"}
            ELSE {}
  /\ stage # "none" => conn = {}
  /\ pc \in {"failed", "done"} => conn = {}

C17_Witness ==
  /\ pc = "failed" /\ error = "DBError" /\ conn = {}
  /\ Len(applied) = 2 /\ Len(executed) = 1
  /\ \A f \in Range(applied) : schema_files[f] = "sql"


\* the futures of the batch whose cancellation succeeded
Cancelled ==
  { i \in Futures : fstate[i] \in {"CANCELLED", "CANCELLED_AND_NOTIFIED"} }

\* C18: _run_tasks_parallel raises if and only if a task of the batch was
\* cancelled; a batch with a failed task and no cancelled one returns
\* normally, and run() goes on to the next stage without an error.
C18_RaisesIffSomeTaskCancelled ==
  /\ [](pc = "ret" => (outcome = "raised" <=> Cancelled # {}))
  /\ [][(pc = "ret" /\ Cancelled = {})
         => /\ pc' = IF stage = "Ingest" THEN "add_indexes" ELSE "done"
            /\ error' = "none"]_vars
  /\ [][(pc = "ret" /\ Cancelled # {})
         => (pc' = "failed" /\ error' = "CancelledError")]_vars

C18_Witness ==
  /\ pc = "ret" /\ outcome = "returned" /\ Cancelled = {}
  /\ Len(tasks) >= 2 /\ reports >= 1
  /\ \E i \in Futures : fexc[i]


\* C19: with fair threads and processes that exit, every call of
\* _run_tasks_parallel returns or raises and every run reaches Analyzed or
\* Failed; a running task holds the coordinator inside the runner, and only
\* the exit of its process ends it, so a task that never exits blocks the
\* batch and the pipeline for good.
C19_RunnerAndRunTerminate ==
  /\ (pc = "submit") ~> (pc = "ret")
  /\ (pc = "run") ~> (pc \in {"done", "failed"})
  /\ [](Running # {} => InRunner)
  /\ [][\A i \in Running :
          \/ fstate'[i] = "RUNNING"
          \/ fstate'[i] = "FINISHED" /\ rcs'[i] \in {0, 1}]_vars

C19_Witness ==
  /\ pc = "ret" /\ max_jobs = 1
  /\ \E i \in Futures : fstate[i] = "FINISHED" /\ ~fexc[i]
  /\ \E i \in Futures : fstate[i] = "FINISHED" /\ fexc[i]
  /\ \E i \in Futures : fstate[i] = "CANCELLED_AND_NOTIFIED"

====
